---------------------------- MODULE Spec2Model ----------------------------
(***************************************************************************)
(* Token-refresh coordinator of c2tactical_client                          *)
(* (src/lib/axiosInterceptor.ts) together with the auth slice              *)
(* (src/store/slices/authSlice.ts) and the two tokens in localStorage.     *)
(*                                                                         *)
(* Granularity: the browser runs one macrotask (a network completion, a    *)
(* user event) to the end, microtasks included, before the next one.  An   *)
(* action below is one macrotask: the arrival of a response together with  *)
(* every promise continuation it releases.  The suspension points are the  *)
(* network calls: a request sent through axiosInstance and the POST of the *)
(* refresh thunk.                                                          *)
(*                                                                         *)
(* Values: tokens are small integers; Null stands for null/undefined,      *)
(* StrUndefined for the string "undefined" that localStorage.setItem       *)
(* stores when it is given undefined.                                      *)
(***************************************************************************)
EXTENDS Integers, Sequences, FiniteSets, TLC

\* ------------------------------------------------------------------ bounds
NumReq == 2          \* logical requests issued through axiosInstance
MaxRefresh == 2      \* refreshes the coordinator is led to start
MaxId == 2           \* ids the server hands out
MaxDispatch == 2     \* resource thunks dispatched in one run
MaxTime == 2         \* clock readings
MaxFetch == 2        \* unanswered requests of fetchWithCache per URL
MaxTimers == 2       \* timeouts of CacheManager.set not yet run

\* ------------------------------------------------------------------ values
Null == 0
StrUndefined == -1
InitToken == 1
Truthy(v) == v # Null

Reqs == 1..NumReq
\* the access token in the body of the n-th answer of the refresh endpoint:
\* every token it mints is new
Minted(n) == InitToken + n

\* statuses of error responses; NoResponse is an error without a response
NoResponse == 0
Statuses == {401, 403, 404, 500, NoResponse}

NoError == [kind |-> "none", status |-> 0]
AxiosErr(s) == [kind |-> "AxiosError", status |-> s]
TokenRefreshFailed == [kind |-> "Error", status |-> 0]
RefreshThrown == [kind |-> "RefreshError", status |-> 0]

VARIABLES
  storage,        \* localStorage: accessToken, refreshToken
  auth,           \* AuthState of the store
  isRefreshing,   \* axiosInterceptor.ts: let isRefreshing
  failedQueue,    \* axiosInterceptor.ts: let failedQueue (ids of the requests whose continuation waits)
  req,            \* per logical request: promise state (st, err), _retry, Authorization
                  \* sent (hdr), the error its handler holds (caught), re-sends so far;
                  \* st "orphaned": the continuation left the queue unsettled
  refreshCalls,   \* number of store.dispatch(refreshAccessToken()) made
  netCalls,       \* number of POSTs to /user/auth/jwt/refresh/
  location,       \* window.location.href
  redirects,      \* number of assignments window.location.href = "/login"
  ev,             \* history: the response handler, settlement or store action that ran last
  thunk,          \* auth slice: where each async thunk of the slice stands
  threat,         \* ThreatState of the store
  satellite,      \* SatelliteState of the store (count: pagination.count)
  calls,          \* thunks of the resource slices whose request is in flight
  dispatched,     \* number of resource thunks dispatched so far
  cache,          \* sessionStorage: per URL the item cache_<url>, <<>> if absent
  now,            \* Date.now()
  inflight,       \* per URL the fetch requests of fetchWithCache not yet answered
  mem,            \* CacheManager.cache: per key the entry, <<>> if absent
  timers,         \* the setTimeout callbacks of CacheManager.set not yet run
  lastSet,        \* history: per key the time and ttl of the latest set whose
                  \* entry no invalidate and no expiry in get has removed
  server,         \* number of satellite images the server holds (ids 1..server)
  displayed,      \* MilitaryDashboard.satelliteImages: number of images shown
  upload          \* MilitaryDashboard.handleFileUpload: where it stands, the
                  \* id of the image it uploaded

\* state of the resource slices; currentImage is <<>> for null and <<image>>
\* for an image
ThreatInitialState ==
  [threats |-> <<>>, currentThreat |-> Null, isLoading |-> FALSE, error |-> Null]

SatelliteInitialState ==
  [images |-> <<>>, currentImage |-> <<>>, isLoading |-> FALSE, error |-> Null,
   count |-> 0]

\* what only the coordinator writes, and what the coordinator never writes
coordVars == <<isRefreshing, failedQueue, req, refreshCalls, location, redirects>>
sliceVars == <<threat, satellite, calls, dispatched>>
dashVars == <<server, displayed, upload>>
restVars == <<thunk, calls, dispatched, now, inflight, timers, dashVars>>
memVars == <<mem, timers, lastSet>>
cacheVars == <<cache, now, inflight>>

vars == <<storage, auth, isRefreshing, failedQueue, req, refreshCalls,
          netCalls, location, redirects, ev, thunk, threat, satellite, calls,
          dispatched, cache, now, inflight, mem, timers, lastSet, server,
          displayed, upload>>

NoEv == [op |-> "init", r |-> 0, status |-> 0, payload |-> Null, drained |-> {}]
\* the tasks no property looks back at leave the same mark
OtherEv == [op |-> "other", r |-> 0, status |-> 0, payload |-> Null, drained |-> {}]
Ev(op, r, status, payload, drained) ==
  [op |-> op, r |-> r, status |-> status, payload |-> payload, drained |-> drained]

\* ------------------------------------------------------------ auth slice
LoadTokens(st) == [accessToken |-> st.accessToken, refreshToken |-> st.refreshToken]

InitialState(st) ==
  [user |-> Null,
   accessToken |-> LoadTokens(st).accessToken,
   refreshToken |-> LoadTokens(st).refreshToken,
   isAuthenticated |-> Truthy(st.accessToken),
   isLoading |-> FALSE,
   error |-> Null]

\* variant: a logout of a state without a user reports an error
LogoutReducer_ErrorWhenLoggedOut(s) ==
  [s EXCEPT !.user = Null, !.accessToken = Null, !.refreshToken = Null,
            !.isAuthenticated = FALSE,
            !.error = IF s.user = Null THEN StrUndefined ELSE Null]

LogoutReducer(s) ==
  [s EXCEPT !.user = Null, !.accessToken = Null, !.refreshToken = Null,
            !.isAuthenticated = FALSE, !.error = Null]

LogoutStorage(st) == [st EXCEPT !.accessToken = Null, !.refreshToken = Null]

RefreshFulfilledReducer(s, payload) ==
  [s EXCEPT !.accessToken = payload, !.isAuthenticated = TRUE]

RefreshRejectedReducer(s) ==
  [s EXCEPT !.user = Null, !.accessToken = Null, !.refreshToken = Null,
            !.isAuthenticated = FALSE]

\* values the server puts in its answers: the profile, the profile after an
\* update, and the message extractErrorMessage returns
UserData == 1
UpdatedUser == 2
ErrMsg == 1

\* login.pending and register.pending, lines 281-284 and 300-303
SignInPendingReducer(s) == [s EXCEPT !.isLoading = TRUE, !.error = Null]

\* login.fulfilled and register.fulfilled, lines 285-292 and 304-311
SignInFulfilledReducer(s, user, access, refresh) ==
  [s EXCEPT !.isLoading = FALSE, !.isAuthenticated = TRUE, !.user = user,
            !.accessToken = access, !.refreshToken = refresh, !.error = Null]

\* login.rejected and register.rejected, lines 293-296 and 312-315
SignInRejectedReducer(s, msg) == [s EXCEPT !.isLoading = FALSE, !.error = msg]

\* lines 319-321
FetchUserPendingReducer(s) == [s EXCEPT !.isLoading = TRUE]

\* lines 322-326
FetchUserFulfilledReducer(s, user) ==
  [s EXCEPT !.user = user, !.isAuthenticated = TRUE, !.isLoading = FALSE]

\* lines 327-331
FetchUserRejectedReducer(s) ==
  [s EXCEPT !.isAuthenticated = FALSE, !.user = Null, !.isLoading = FALSE]

\* updateProfile.fulfilled and uploadAvatar.fulfilled, lines 334-341
SetUserReducer(s, user) == [s EXCEPT !.user = user]

\* lines 274-276
ClearErrorReducer(s) == [s EXCEPT !.error = Null]

\* login and register thunks, lines 109-110 and 147-148
StoreTokens(st, access, refresh) ==
  [st EXCEPT !.accessToken = access, !.refreshToken = refresh]

\* variant: the thunk posts whatever it read from storage
RefreshTokenMissing_Ignored(st) == FALSE

\* refreshAccessToken thunk, line 237: no refresh token, no network call
RefreshTokenMissing(st) == ~ Truthy(st.refreshToken)

\* variant: the new access token is returned but not written to localStorage
StoreAccess_NotWritten(st, access) == st

\* refreshAccessToken thunk, line 246: localStorage.setItem("accessToken", access)
StoreAccess(st, access) ==
  [st EXCEPT !.accessToken = IF access = Null THEN StrUndefined ELSE access]

\* refreshAccessToken thunk, lines 253-254
RefreshCatchStorage(st) == [st EXCEPT !.accessToken = Null, !.refreshToken = Null]

\* ----------------------------------------------------------- interceptors
\* request interceptor: the stored token, when there is one, replaces the header
RequestInterceptor(st, hdr) ==
  IF Truthy(st.accessToken) THEN st.accessToken ELSE hdr

\* variants: the _retry marker is not consulted; the status is not consulted
ShouldRecover_IgnoreRetry(status, retry) == status = 401
ShouldRecover_AnyStatus(status, retry) == ~ retry

\* line 63
ShouldRecover(status, retry) == status = 401 /\ ~ retry

\* variant: a 401 never waits for the refresh in flight
MustQueue_Never(flag) == FALSE

\* line 64
MustQueue(flag) == flag

\* processQueue, lines 29-35: what happens to one queued continuation
QueueOutcome(error, token) ==
  IF error # NoError THEN "reject"
  ELSE IF Truthy(token) THEN "resolve"
  ELSE "dropped"

\* settlement of the continuations in queue q by processQueue(error, token),
\* followed by the continuations' own then/catch handlers (lines 69-77);
\* st is localStorage as the request interceptor of the re-sent request reads it
ProcessQueue(rq, q, error, token, st) ==
  LET inQ(x) == \E i \in 1..Len(q) : q[i] = x
      out == QueueOutcome(error, token)
  IN [x \in Reqs |->
        IF ~ inQ(x) THEN rq[x]
        ELSE IF out = "reject"
          THEN [rq[x] EXCEPT !.st = "rejected", !.err = error]
        ELSE IF out = "resolve"
          THEN [rq[x] EXCEPT !.st = "inflight",
                             !.hdr = RequestInterceptor(st, token),
                             !.resends = @ + 1]
        ELSE [rq[x] EXCEPT !.st = "orphaned"]]

QueueSet == {failedQueue[i] : i \in 1..Len(failedQueue)}

\* ------------------------------------------------------ resource slices
Ids == 1..MaxId

\* entities as the server lists them
Threat(i, v, a) == [id |-> i, verified |-> v, acknowledged |-> a]
Image(i, an, n) == [id |-> i, analyzed |-> an, analysis_count |-> n]

ThreatLists == {[i \in 1..k |-> Threat(i, FALSE, FALSE)] : k \in 0..MaxId}
ImageLists == {[i \in 1..k |-> Image(i, FALSE, 0)] : k \in 0..MaxId}

IdsOf(list) == {list[i].id : i \in 1..Len(list)}

\* Array.prototype.findIndex on the id, 0 for the -1 of a miss
FindIndex(list, id) ==
  IF id \in IdsOf(list)
    THEN CHOOSE i \in 1..Len(list) :
           /\ list[i].id = id
           /\ \A j \in 1..(i - 1) : list[j].id # id
    ELSE 0

\* ---- threatSlice reducers, lines 176-217
ThreatClearError(s) == [s EXCEPT !.error = Null]

FetchThreatsPendingReducer(s) == [s EXCEPT !.isLoading = TRUE, !.error = Null]

FetchThreatsFulfilledReducer(s, payload) ==
  [s EXCEPT !.isLoading = FALSE, !.threats = payload]

FetchThreatsRejectedReducer(s, msg) ==
  [s EXCEPT !.isLoading = FALSE, !.error = msg]

\* variant: the answer replaces the head of the list
ReplaceThreatReducer_Head(s, payload) ==
  IF s.threats # <<>> THEN [s EXCEPT !.threats[1] = payload] ELSE s

\* verifyThreat.fulfilled and acknowledgeThreat.fulfilled, lines 203-215
ReplaceThreatReducer(s, payload) ==
  LET index == FindIndex(s.threats, payload.id)
  IN  IF index # 0 THEN [s EXCEPT !.threats[index] = payload] ELSE s

\* ---- satelliteSlice reducers, lines 206-297
SatelliteClearError(s) == [s EXCEPT !.error = Null]

ClearCurrentImage(s) == [s EXCEPT !.currentImage = <<>>]

SatellitePendingReducer(s) == [s EXCEPT !.isLoading = TRUE, !.error = Null]

SatelliteRejectedReducer(s, msg) == [s EXCEPT !.isLoading = FALSE, !.error = msg]

FetchImagesFulfilledReducer(s, payload) ==
  [s EXCEPT !.isLoading = FALSE, !.images = payload, !.count = Len(payload)]

FetchImageFulfilledReducer(s, payload) ==
  [s EXCEPT !.isLoading = FALSE, !.currentImage = <<payload>>]

UploadFulfilledReducer(s, payload) ==
  [s EXCEPT !.isLoading = FALSE, !.images = <<payload>> \o s.images]

Analyzed(img) ==
  [img EXCEPT !.analyzed = TRUE, !.analysis_count = img.analysis_count + 1]

AnalyzeFulfilledReducer(s, imageId) ==
  LET imageIndex == FindIndex(s.images, imageId)
      s1 == IF imageIndex # 0
              THEN [s EXCEPT !.images[imageIndex] = Analyzed(s.images[imageIndex])]
              ELSE s
  IN  IF s1.currentImage # <<>> /\ s1.currentImage[1].id = imageId
        THEN [s1 EXCEPT !.currentImage[1] = Analyzed(s1.currentImage[1])]
        ELSE s1

\* ------------------------------------------------------- fetchWithCache
\* ProtectedRoute.tsx lines 1383-1425: the URLs asked for, the bodies the
\* server answers with, the cacheTime arguments of the calls
Urls == {1, 2}
Bodies == {1, 2}
\* JSON.stringify({ data, timestamp }) and its JSON.parse
Entry(data, timestamp) == <<[data |-> data, timestamp |-> timestamp]>>

\* variant: an entry as old as cacheTime is still served
Fresh_Inclusive(item, time, cacheTime) ==
  item # <<>> /\ time - item[1].timestamp <= cacheTime

\* lines 1389-1395: the item exists and is younger than cacheTime
Fresh(item, time, cacheTime) ==
  item # <<>> /\ time - item[1].timestamp < cacheTime

\* sessionStorage.clear()
SessionStorageClear(c) == [u \in DOMAIN c |-> <<>>]

\* --------------------------------------------------------- CacheManager
\* unnamed/part_000 lines 164-219: the keys in use, the ttl arguments (0 for
\* an omitted ttl), the default ttl
Keys == {1, 2}
Ttls == {0, 1, 2}
DefaultTTL == 3

\* ttl || this.defaultTTL
EffectiveTtl(ttl) == IF ttl = 0 THEN DefaultTTL ELSE ttl

\* get, lines 191-197: age > maxAge
Expired(entry, time, ttl) == time - entry[1].timestamp > EffectiveTtl(ttl)

\* invalidate, lines 202-214: the entries of the keys K are deleted
Invalidate(m, K) == [k \in DOMAIN m |-> IF k \in K THEN <<>> ELSE m[k]]

\* ------------------------------------------------------------------- Init
InitStorages ==
  { [accessToken |-> InitToken, refreshToken |-> InitToken],
    [accessToken |-> Null, refreshToken |-> Null] }

InitReq ==
  [st |-> "idle", retry |-> FALSE, hdr |-> Null, resends |-> 0,
   caught |-> NoError, err |-> NoError]

\* no thunk of the auth slice has been dispatched
InitThunk ==
  [login |-> "idle", register |-> "idle", fetchCurrentUser |-> "idle",
   updateProfile |-> "idle", uploadAvatar |-> "idle", refreshToken |-> "idle"]

Init ==
  /\ storage \in InitStorages
  /\ auth = InitialState(storage)
  /\ isRefreshing = FALSE
  /\ failedQueue = <<>>
  /\ req = [r \in Reqs |-> InitReq]
  /\ refreshCalls = 0
  /\ netCalls = 0
  /\ location = "/"
  /\ redirects = 0
  /\ ev = NoEv
  /\ thunk = InitThunk
  /\ threat = ThreatInitialState
  /\ satellite = SatelliteInitialState
  /\ calls = {}
  /\ dispatched = 0
  /\ cache = [u \in Urls |-> <<>>]
  /\ now = 0
  /\ inflight = [u \in Urls |-> 0]
  /\ mem = [k \in Keys |-> <<>>]
  /\ timers = {}
  /\ lastSet = [k \in Keys |-> <<>>]
  /\ server = 0
  /\ displayed = 0
  /\ upload = [pc |-> "idle", id |-> 0]

\* ---------------------------------------------------------------- actions
\* a caller issues request r through axiosInstance; the request interceptor runs
Send(r) ==
  /\ UNCHANGED <<restVars, threat, satellite, cache, mem, lastSet>>
  /\ req[r].st = "idle"
  /\ req' = [req EXCEPT ![r].st = "inflight",
                        ![r].hdr = RequestInterceptor(storage, Null)]
  /\ ev' = OtherEv
  /\ UNCHANGED <<storage, auth, isRefreshing, failedQueue, refreshCalls,
                 netCalls, location, redirects>>

\* response interceptor, line 56
RespondOk(r) ==
  /\ UNCHANGED <<restVars, threat, satellite, cache, mem, lastSet>>
  /\ req[r].st = "inflight"
  /\ req' = [req EXCEPT ![r].st = "resolved"]
  /\ ev' = OtherEv
  /\ UNCHANGED <<storage, auth, isRefreshing, failedQueue, refreshCalls,
                 netCalls, location, redirects>>

\* variant: the failure path leaves the queue as it is
FailurePath_QueueKept(r, qErr, ownErr, a1, st1) ==
  /\ req' = [req EXCEPT ![r].st = "rejected", ![r].err = ownErr, ![r].retry = TRUE]
  /\ failedQueue' = failedQueue
  /\ auth' = LogoutReducer(a1)
  /\ storage' = LogoutStorage(st1)
  /\ location' = "/login"
  /\ redirects' = redirects + 1
  /\ isRefreshing' = FALSE

\* variant: no finally block on the failure path
FailurePath_FlagKept(r, qErr, ownErr, a1, st1) ==
  /\ req' = [ProcessQueue(req, failedQueue, qErr, Null, st1)
               EXCEPT ![r].st = "rejected", ![r].err = ownErr, ![r].retry = TRUE]
  /\ failedQueue' = <<>>
  /\ auth' = LogoutReducer(a1)
  /\ storage' = LogoutStorage(st1)
  /\ location' = "/login"
  /\ redirects' = redirects + 1
  /\ isRefreshing' = isRefreshing

\* lines 97-102 and 105-109: processQueue(error), logout, redirect, reject;
\* a1 and st1 are the store and localStorage as the refresh thunk left them
FailurePath(r, qErr, ownErr, a1, st1) ==
  /\ req' = [ProcessQueue(req, failedQueue, qErr, Null, st1)
               EXCEPT ![r].st = "rejected", ![r].err = ownErr, ![r].retry = TRUE]
  /\ failedQueue' = <<>>
  /\ auth' = LogoutReducer(a1)
  /\ storage' = LogoutStorage(st1)
  /\ location' = "/login"
  /\ redirects' = redirects + 1
  /\ isRefreshing' = FALSE

\* lines 64-78: the continuation of r is pushed onto failedQueue
Enqueue(r, s) ==
  /\ failedQueue' = Append(failedQueue, r)
  /\ req' = [req EXCEPT ![r].st = "queued"]
  /\ ev' = Ev("Enqueue", r, s, Null, {})
  /\ UNCHANGED <<storage, auth, isRefreshing, refreshCalls, netCalls,
                 location, redirects>>

\* variant: the flag is not raised when the refresh starts
StartRefresh_FlagNotSet(r, s) ==
  /\ refreshCalls < MaxRefresh
  /\ refreshCalls' = refreshCalls + 1
  /\ IF RefreshTokenMissing(storage)
       THEN /\ FailurePath(r, TokenRefreshFailed, AxiosErr(s),
                           RefreshRejectedReducer(auth), storage)
            /\ ev' = Ev("RefreshNoToken", r, s, Null, QueueSet)
            /\ UNCHANGED netCalls
       ELSE /\ req' = [req EXCEPT ![r].st = "awaitRefresh", ![r].retry = TRUE,
                                  ![r].caught = AxiosErr(s)]
            /\ netCalls' = netCalls + 1
            /\ ev' = Ev("StartRefresh", r, s, Null, {})
            /\ UNCHANGED <<storage, auth, failedQueue, location, redirects,
                           isRefreshing>>

\* lines 80-85: r starts the refresh; the thunk runs up to its first await
StartRefresh(r, s) ==
  /\ refreshCalls < MaxRefresh
  /\ refreshCalls' = refreshCalls + 1
  /\ IF RefreshTokenMissing(storage)
       THEN /\ FailurePath(r, TokenRefreshFailed, AxiosErr(s),
                           RefreshRejectedReducer(auth), storage)
            /\ ev' = Ev("RefreshNoToken", r, s, Null, QueueSet)
            /\ UNCHANGED netCalls
       ELSE /\ req' = [req EXCEPT ![r].st = "awaitRefresh", ![r].retry = TRUE,
                                  ![r].caught = AxiosErr(s)]
            /\ isRefreshing' = TRUE
            /\ netCalls' = netCalls + 1
            /\ ev' = Ev("StartRefresh", r, s, Null, {})
            /\ UNCHANGED <<storage, auth, failedQueue, location, redirects>>

\* lines 115-124: the error is passed on to the caller
PassThrough(r, s) ==
  /\ req' = [req EXCEPT ![r].st = "rejected", ![r].err = AxiosErr(s)]
  /\ ev' = Ev("PassThrough", r, s, Null, {})
  /\ UNCHANGED <<storage, auth, isRefreshing, failedQueue, refreshCalls,
                 netCalls, location, redirects>>

\* response interceptor, error handler (lines 57-125), for a response of status s
RespondError(r, s) ==
  /\ UNCHANGED <<restVars, threat, satellite, cache, mem, lastSet>>
  /\ req[r].st = "inflight"
  /\ IF ShouldRecover(s, req[r].retry)
       THEN IF MustQueue(isRefreshing) THEN Enqueue(r, s) ELSE StartRefresh(r, s)
       ELSE PassThrough(r, s)

\* variant: the flag is lowered on the failure path only
RefreshFulfilled_FlagKept(r, access) ==
  /\ UNCHANGED <<restVars, threat, satellite, cache, mem, lastSet>>
  /\ req[r].st = "awaitRefresh"
  /\ LET st1 == StoreAccess(storage, access)
     IN /\ storage' = st1
        /\ req' = [ProcessQueue(req, failedQueue, NoError, access, st1)
                     EXCEPT ![r].st = "inflight",
                            ![r].hdr = RequestInterceptor(st1, access),
                            ![r].resends = @ + 1]
  /\ auth' = RefreshFulfilledReducer(auth, access)
  /\ failedQueue' = <<>>
  /\ isRefreshing' = isRefreshing
  /\ ev' = Ev("RefreshFulfilled", r, 0, access, QueueSet)
  /\ UNCHANGED <<refreshCalls, netCalls, location, redirects>>

\* the refresh POST succeeds with body {access}: thunk lines 245-248,
\* reducer lines 345-348, interceptor lines 87-95 and finally
RefreshFulfilled(r, access) ==
  /\ UNCHANGED <<restVars, threat, satellite, cache, mem, lastSet>>
  /\ req[r].st = "awaitRefresh"
  /\ LET st1 == StoreAccess(storage, access)
     IN /\ storage' = st1
        /\ req' = [ProcessQueue(req, failedQueue, NoError, access, st1)
                     EXCEPT ![r].st = "inflight",
                            ![r].hdr = RequestInterceptor(st1, access),
                            ![r].resends = @ + 1]
  /\ auth' = RefreshFulfilledReducer(auth, access)
  /\ failedQueue' = <<>>
  /\ isRefreshing' = FALSE
  /\ ev' = Ev("RefreshFulfilled", r, 0, access, QueueSet)
  /\ UNCHANGED <<refreshCalls, netCalls, location, redirects>>

\* the refresh POST fails: thunk lines 249-255, reducer lines 349-354,
\* interceptor lines 96-103 and finally
RefreshRejected(r) ==
  /\ UNCHANGED <<restVars, threat, satellite, cache, mem, lastSet>>
  /\ req[r].st = "awaitRefresh"
  /\ FailurePath(r, TokenRefreshFailed, req[r].caught,
                 RefreshRejectedReducer(auth), RefreshCatchStorage(storage))
  /\ ev' = Ev("RefreshRejected", r, 0, Null, QueueSet)
  /\ UNCHANGED <<refreshCalls, netCalls>>

\* store.dispatch itself rejects: interceptor lines 104-109 and finally
RefreshThrows(r) ==
  /\ UNCHANGED <<restVars, threat, satellite, cache, mem, lastSet>>
  /\ req[r].st = "awaitRefresh"
  /\ FailurePath(r, RefreshThrown, RefreshThrown, auth, storage)
  /\ ev' = Ev("RefreshThrows", r, 0, Null, QueueSet)
  /\ UNCHANGED <<refreshCalls, netCalls>>

\* useLogout.handleLogout with its default options: dispatch(logout()), the
\* clearError and clearCurrentImage of the slices, cacheManager.invalidate(),
\* sessionStorage.clear(),
\* navigate("/login")
UserLogout ==
  /\ UNCHANGED restVars
  /\ mem' = Invalidate(mem, Keys)
  /\ lastSet' = Invalidate(lastSet, Keys)
  /\ cache' = SessionStorageClear(cache)
  /\ threat' = ThreatClearError(threat)
  /\ satellite' = ClearCurrentImage(SatelliteClearError(satellite))
  /\ auth' = LogoutReducer(auth)
  /\ storage' = LogoutStorage(storage)
  /\ location' = "/login"
  /\ ev' = OtherEv
  /\ UNCHANGED <<isRefreshing, failedQueue, req, refreshCalls, netCalls,
                 redirects>>

Next ==
  \/ \E r \in Reqs : Send(r)
  \/ \E r \in Reqs : RespondOk(r)
  \/ \E r \in Reqs, s \in Statuses : RespondError(r, s)
  \/ \E r \in Reqs, a \in {Minted(netCalls), Null} : RefreshFulfilled(r, a)
  \/ \E r \in Reqs : RefreshRejected(r)
  \/ \E r \in Reqs : RefreshThrows(r)
  \/ UserLogout

Spec == Init /\ [][Next]_vars

\* ============================================================ auth slice
\* The thunks and reducers of authSlice.ts, each thunk from its dispatch to its
\* settlement, one action per task.  mark(op) is the history record of the
\* store action or thunk step op.
Mark(op) == Ev(op, 0, 0, Null, {})

AuthFrame == UNCHANGED <<coordVars, sliceVars, cacheVars, memVars, dashVars>>

\* ---- login, lines 98-126
LoginStart ==
  /\ thunk.login = "idle"
  /\ thunk' = [thunk EXCEPT !.login = "create"]
  /\ auth' = SignInPendingReducer(auth)
  /\ ev' = Mark("login/pending")
  /\ AuthFrame /\ UNCHANGED <<storage, netCalls>>

\* jwt/create answered: the tokens go to localStorage, the profile is asked for
LoginTokens ==
  /\ thunk.login = "create"
  /\ thunk' = [thunk EXCEPT !.login = "profile"]
  /\ storage' = StoreTokens(storage, InitToken, InitToken)
  /\ ev' = Mark("login/tokens")
  /\ AuthFrame /\ UNCHANGED <<auth, netCalls>>

LoginFulfilled ==
  /\ thunk.login = "profile"
  /\ thunk' = [thunk EXCEPT !.login = "idle"]
  /\ auth' = SignInFulfilledReducer(auth, UserData, InitToken, InitToken)
  /\ ev' = Mark("login/fulfilled")
  /\ AuthFrame /\ UNCHANGED <<storage, netCalls>>

\* either call fails: catch, rejectWithValue
LoginRejected ==
  /\ thunk.login \in {"create", "profile"}
  /\ thunk' = [thunk EXCEPT !.login = "idle"]
  /\ auth' = SignInRejectedReducer(auth, ErrMsg)
  /\ ev' = Mark("login/rejected")
  /\ AuthFrame /\ UNCHANGED <<storage, netCalls>>

\* ---- register, lines 128-164
RegisterStart ==
  /\ thunk.register = "idle"
  /\ thunk' = [thunk EXCEPT !.register = "users"]
  /\ auth' = SignInPendingReducer(auth)
  /\ ev' = Mark("register/pending")
  /\ AuthFrame /\ UNCHANGED <<storage, netCalls>>

\* auth/users answered: the account exists, jwt/create is asked for
RegisterCreated ==
  /\ thunk.register = "users"
  /\ thunk' = [thunk EXCEPT !.register = "create"]
  /\ ev' = Mark("register/created")
  /\ AuthFrame /\ UNCHANGED <<auth, storage, netCalls>>

RegisterTokens ==
  /\ thunk.register = "create"
  /\ thunk' = [thunk EXCEPT !.register = "profile"]
  /\ storage' = StoreTokens(storage, InitToken, InitToken)
  /\ ev' = Mark("register/tokens")
  /\ AuthFrame /\ UNCHANGED <<auth, netCalls>>

RegisterFulfilled ==
  /\ thunk.register = "profile"
  /\ thunk' = [thunk EXCEPT !.register = "idle"]
  /\ auth' = SignInFulfilledReducer(auth, UserData, InitToken, InitToken)
  /\ ev' = Mark("register/fulfilled")
  /\ AuthFrame /\ UNCHANGED <<storage, netCalls>>

RegisterRejected ==
  /\ thunk.register \in {"users", "create", "profile"}
  /\ thunk' = [thunk EXCEPT !.register = "idle"]
  /\ auth' = SignInRejectedReducer(auth, ErrMsg)
  /\ ev' = Mark("register/rejected")
  /\ AuthFrame /\ UNCHANGED <<storage, netCalls>>

\* ---- fetchCurrentUser, lines 166-184, dispatched by ProtectedRoute
\* (ProtectedRoute.tsx lines 18-23) when there is a token and no user
FetchUserStart ==
  /\ thunk.fetchCurrentUser = "idle"
  /\ Truthy(auth.accessToken) /\ auth.user = Null /\ ~ auth.isLoading
  /\ IF ~ Truthy(storage.accessToken)
       THEN /\ auth' = FetchUserRejectedReducer(FetchUserPendingReducer(auth))
            /\ ev' = Mark("fetchCurrentUser/rejected")
            /\ UNCHANGED thunk
       ELSE /\ auth' = FetchUserPendingReducer(auth)
            /\ thunk' = [thunk EXCEPT !.fetchCurrentUser = "net"]
            /\ ev' = Mark("fetchCurrentUser/pending")
  /\ AuthFrame /\ UNCHANGED <<storage, netCalls>>

FetchUserFulfilled ==
  /\ thunk.fetchCurrentUser = "net"
  /\ thunk' = [thunk EXCEPT !.fetchCurrentUser = "idle"]
  /\ auth' = FetchUserFulfilledReducer(auth, UserData)
  /\ ev' = Mark("fetchCurrentUser/fulfilled")
  /\ AuthFrame /\ UNCHANGED <<storage, netCalls>>

FetchUserRejected ==
  /\ thunk.fetchCurrentUser = "net"
  /\ thunk' = [thunk EXCEPT !.fetchCurrentUser = "idle"]
  /\ auth' = FetchUserRejectedReducer(auth)
  /\ ev' = Mark("fetchCurrentUser/rejected")
  /\ AuthFrame /\ UNCHANGED <<storage, netCalls>>

\* ---- updateProfile and uploadAvatar, lines 186-230: no reducer for
\* pending or rejected
UpdateProfileStart ==
  /\ thunk.updateProfile = "idle"
  /\ thunk' = [thunk EXCEPT !.updateProfile = "net"]
  /\ ev' = Mark("updateProfile/pending")
  /\ AuthFrame /\ UNCHANGED <<auth, storage, netCalls>>

UpdateProfileFulfilled ==
  /\ thunk.updateProfile = "net"
  /\ thunk' = [thunk EXCEPT !.updateProfile = "idle"]
  /\ auth' = SetUserReducer(auth, UpdatedUser)
  /\ ev' = Mark("updateProfile/fulfilled")
  /\ AuthFrame /\ UNCHANGED <<storage, netCalls>>

UpdateProfileRejected ==
  /\ thunk.updateProfile = "net"
  /\ thunk' = [thunk EXCEPT !.updateProfile = "idle"]
  /\ ev' = Mark("updateProfile/rejected")
  /\ AuthFrame /\ UNCHANGED <<auth, storage, netCalls>>

UploadAvatarStart ==
  /\ thunk.uploadAvatar = "idle"
  /\ thunk' = [thunk EXCEPT !.uploadAvatar = "net"]
  /\ ev' = Mark("uploadAvatar/pending")
  /\ AuthFrame /\ UNCHANGED <<auth, storage, netCalls>>

UploadAvatarFulfilled ==
  /\ thunk.uploadAvatar = "net"
  /\ thunk' = [thunk EXCEPT !.uploadAvatar = "idle"]
  /\ auth' = SetUserReducer(auth, UpdatedUser)
  /\ ev' = Mark("uploadAvatar/fulfilled")
  /\ AuthFrame /\ UNCHANGED <<storage, netCalls>>

UploadAvatarRejected ==
  /\ thunk.uploadAvatar = "net"
  /\ thunk' = [thunk EXCEPT !.uploadAvatar = "idle"]
  /\ ev' = Mark("uploadAvatar/rejected")
  /\ AuthFrame /\ UNCHANGED <<auth, storage, netCalls>>

\* ---- refreshAccessToken, lines 232-258, as a thunk of the slice
RefreshDispatch ==
  /\ thunk.refreshToken = "idle"
  /\ IF RefreshTokenMissing(storage)
       THEN /\ auth' = RefreshRejectedReducer(auth)
            /\ ev' = Mark("refreshToken/rejected")
            /\ UNCHANGED <<thunk, netCalls>>
       ELSE /\ netCalls < MaxRefresh
            /\ netCalls' = netCalls + 1
            /\ thunk' = [thunk EXCEPT !.refreshToken = "net"]
            /\ ev' = Mark("refreshToken/pending")
            /\ UNCHANGED auth
  /\ AuthFrame /\ UNCHANGED storage

RefreshThunkFulfilled(access) ==
  /\ thunk.refreshToken = "net"
  /\ thunk' = [thunk EXCEPT !.refreshToken = "idle"]
  /\ storage' = StoreAccess(storage, access)
  /\ auth' = RefreshFulfilledReducer(auth, access)
  /\ ev' = Mark("refreshToken/fulfilled")
  /\ AuthFrame /\ UNCHANGED netCalls

RefreshThunkRejected ==
  /\ thunk.refreshToken = "net"
  /\ thunk' = [thunk EXCEPT !.refreshToken = "idle"]
  /\ storage' = RefreshCatchStorage(storage)
  /\ auth' = RefreshRejectedReducer(auth)
  /\ ev' = Mark("refreshToken/rejected")
  /\ AuthFrame /\ UNCHANGED netCalls

\* ---- the two plain reducers, lines 265-276
Logout ==
  /\ auth' = LogoutReducer(auth)
  /\ storage' = LogoutStorage(storage)
  /\ ev' = Mark("logout")
  /\ AuthFrame /\ UNCHANGED <<thunk, netCalls>>

ClearError ==
  /\ auth' = ClearErrorReducer(auth)
  /\ ev' = Mark("clearError")
  /\ AuthFrame /\ UNCHANGED <<thunk, storage, netCalls>>

AuthNext ==
  \/ LoginStart \/ LoginTokens \/ LoginFulfilled \/ LoginRejected
  \/ RegisterStart \/ RegisterCreated \/ RegisterTokens
  \/ RegisterFulfilled \/ RegisterRejected
  \/ FetchUserStart \/ FetchUserFulfilled \/ FetchUserRejected
  \/ UpdateProfileStart \/ UpdateProfileFulfilled \/ UpdateProfileRejected
  \/ UploadAvatarStart \/ UploadAvatarFulfilled \/ UploadAvatarRejected
  \/ RefreshDispatch
  \/ \E a \in {Minted(netCalls), Null} : RefreshThunkFulfilled(a)
  \/ RefreshThunkRejected
  \/ Logout \/ ClearError

SpecAuth == Init /\ [][AuthNext]_vars

\* ======================================================= resource slices
\* threatSlice.ts and satelliteSlice.ts.  Every thunk sends its request with
\* the plain axios import and the header of getAuthHeaders; any answer that is
\* not a success lands in the catch of the thunk, which rejects with the
\* message.
\* ---- the thunks
Call(type, arg) == [type |-> type, arg |-> arg]

SliceFrame ==
  UNCHANGED <<coordVars, storage, auth, netCalls, thunk, cacheVars, memVars,
              dashVars>>

\* dispatch: the request leaves; the pending action reaches the reducers
Dispatch(c) ==
  /\ c \notin calls
  /\ dispatched < MaxDispatch
  /\ calls' = calls \cup {c}
  /\ dispatched' = dispatched + 1
  /\ SliceFrame

\* the request of call c is answered
Settle(c) ==
  /\ c \in calls
  /\ calls' = calls \ {c}
  /\ UNCHANGED dispatched
  /\ SliceFrame

FetchThreatsDispatch ==
  /\ Dispatch(Call("threat/fetchThreats", 0))
  /\ threat' = FetchThreatsPendingReducer(threat)
  /\ ev' = Ev("threat/fetchThreats/pending", 0, 0, Null, {})
  /\ UNCHANGED satellite

FetchThreatsFulfilled(payload) ==
  /\ Settle(Call("threat/fetchThreats", 0))
  /\ threat' = FetchThreatsFulfilledReducer(threat, payload)
  /\ ev' = Ev("threat/fetchThreats/fulfilled", 0, 200, Null, {})
  /\ UNCHANGED satellite

FetchThreatsRejected(status) ==
  /\ Settle(Call("threat/fetchThreats", 0))
  /\ threat' = FetchThreatsRejectedReducer(threat, ErrMsg)
  /\ ev' = Ev("threat/fetchThreats/rejected", 0, status, Null, {})
  /\ UNCHANGED satellite

\* verifyThreat: no reducer for pending or rejected
VerifyThreatDispatch(id) ==
  /\ Dispatch(Call("threat/verify", id))
  /\ ev' = Ev("threat/verify/pending", id, 0, Null, {})
  /\ UNCHANGED <<threat, satellite>>

VerifyThreatFulfilled(id, acknowledged) ==
  /\ Settle(Call("threat/verify", id))
  /\ threat' = ReplaceThreatReducer(threat, Threat(id, TRUE, acknowledged))
  /\ ev' = Ev("threat/verify/fulfilled", id, 200, Null, {})
  /\ UNCHANGED satellite

VerifyThreatRejected(id, status) ==
  /\ Settle(Call("threat/verify", id))
  /\ ev' = Ev("threat/verify/rejected", id, status, Null, {})
  /\ UNCHANGED <<threat, satellite>>

\* acknowledgeThreat: no reducer for pending or rejected
AcknowledgeThreatDispatch(id) ==
  /\ Dispatch(Call("threat/acknowledge", id))
  /\ ev' = Ev("threat/acknowledge/pending", id, 0, Null, {})
  /\ UNCHANGED <<threat, satellite>>

AcknowledgeThreatFulfilled(id, verified) ==
  /\ Settle(Call("threat/acknowledge", id))
  /\ threat' = ReplaceThreatReducer(threat, Threat(id, verified, TRUE))
  /\ ev' = Ev("threat/acknowledge/fulfilled", id, 200, Null, {})
  /\ UNCHANGED satellite

AcknowledgeThreatRejected(id, status) ==
  /\ Settle(Call("threat/acknowledge", id))
  /\ ev' = Ev("threat/acknowledge/rejected", id, status, Null, {})
  /\ UNCHANGED <<threat, satellite>>

FetchImagesDispatch ==
  /\ Dispatch(Call("satellite/fetchImages", 0))
  /\ satellite' = SatellitePendingReducer(satellite)
  /\ ev' = Ev("satellite/fetchImages/pending", 0, 0, Null, {})
  /\ UNCHANGED threat

FetchImagesFulfilled(payload) ==
  /\ Settle(Call("satellite/fetchImages", 0))
  /\ satellite' = FetchImagesFulfilledReducer(satellite, payload)
  /\ ev' = Ev("satellite/fetchImages/fulfilled", 0, 200, Null, {})
  /\ UNCHANGED threat

FetchImagesRejected(status) ==
  /\ Settle(Call("satellite/fetchImages", 0))
  /\ satellite' = SatelliteRejectedReducer(satellite, ErrMsg)
  /\ ev' = Ev("satellite/fetchImages/rejected", 0, status, Null, {})
  /\ UNCHANGED threat

FetchImageDispatch(id) ==
  /\ Dispatch(Call("satellite/fetchImage", id))
  /\ satellite' = SatellitePendingReducer(satellite)
  /\ ev' = Ev("satellite/fetchImage/pending", id, 0, Null, {})
  /\ UNCHANGED threat

FetchImageFulfilled(id, analyzed) ==
  /\ Settle(Call("satellite/fetchImage", id))
  /\ satellite' = FetchImageFulfilledReducer(satellite,
                     Image(id, analyzed, IF analyzed THEN 1 ELSE 0))
  /\ ev' = Ev("satellite/fetchImage/fulfilled", id, 200, Null, {})
  /\ UNCHANGED threat

FetchImageRejected(id, status) ==
  /\ Settle(Call("satellite/fetchImage", id))
  /\ satellite' = SatelliteRejectedReducer(satellite, ErrMsg)
  /\ ev' = Ev("satellite/fetchImage/rejected", id, status, Null, {})
  /\ UNCHANGED threat

UploadImageDispatch ==
  /\ Dispatch(Call("satellite/uploadImage", 0))
  /\ satellite' = SatellitePendingReducer(satellite)
  /\ ev' = Ev("satellite/uploadImage/pending", 0, 0, Null, {})
  /\ UNCHANGED threat

\* the server answers with the image it created, under an id of its own
\* choice that no image it listed before has
UploadImageFulfilled(id) ==
  /\ id \notin IdsOf(satellite.images)
  /\ id \notin IdsOf(satellite.currentImage)
  /\ Settle(Call("satellite/uploadImage", 0))
  /\ satellite' = UploadFulfilledReducer(satellite, Image(id, FALSE, 0))
  /\ ev' = Ev("satellite/uploadImage/fulfilled", id, 200, Null, {})
  /\ UNCHANGED threat

UploadImageRejected(status) ==
  /\ Settle(Call("satellite/uploadImage", 0))
  /\ satellite' = SatelliteRejectedReducer(satellite, ErrMsg)
  /\ ev' = Ev("satellite/uploadImage/rejected", 0, status, Null, {})
  /\ UNCHANGED threat

\* analyzeImage: no reducer for pending or rejected
AnalyzeImageDispatch(id) ==
  /\ Dispatch(Call("satellite/analyzeImage", id))
  /\ ev' = Ev("satellite/analyzeImage/pending", id, 0, Null, {})
  /\ UNCHANGED <<threat, satellite>>

AnalyzeImageFulfilled(id) ==
  /\ Settle(Call("satellite/analyzeImage", id))
  /\ satellite' = AnalyzeFulfilledReducer(satellite, id)
  /\ ev' = Ev("satellite/analyzeImage/fulfilled", id, 200, Null, {})
  /\ UNCHANGED threat

AnalyzeImageRejected(id, status) ==
  /\ Settle(Call("satellite/analyzeImage", id))
  /\ ev' = Ev("satellite/analyzeImage/rejected", id, status, Null, {})
  /\ UNCHANGED <<threat, satellite>>

ThreatNext ==
  \/ FetchThreatsDispatch
  \/ \E payload \in ThreatLists : FetchThreatsFulfilled(payload)
  \/ \E s \in Statuses : FetchThreatsRejected(s)
  \/ \E id \in Ids : VerifyThreatDispatch(id)
  \/ \E id \in Ids, b \in BOOLEAN : VerifyThreatFulfilled(id, b)
  \/ \E id \in Ids, s \in Statuses : VerifyThreatRejected(id, s)
  \/ \E id \in Ids : AcknowledgeThreatDispatch(id)
  \/ \E id \in Ids, b \in BOOLEAN : AcknowledgeThreatFulfilled(id, b)
  \/ \E id \in Ids, s \in Statuses : AcknowledgeThreatRejected(id, s)

SatelliteNext ==
  \/ FetchImagesDispatch
  \/ \E payload \in ImageLists : FetchImagesFulfilled(payload)
  \/ \E s \in Statuses : FetchImagesRejected(s)
  \/ \E id \in Ids : FetchImageDispatch(id)
  \/ \E id \in Ids, b \in BOOLEAN : FetchImageFulfilled(id, b)
  \/ \E id \in Ids, s \in Statuses : FetchImageRejected(id, s)
  \/ UploadImageDispatch
  \/ \E id \in Ids : UploadImageFulfilled(id)
  \/ \E s \in Statuses : UploadImageRejected(s)
  \/ \E id \in Ids : AnalyzeImageDispatch(id)
  \/ \E id \in Ids : AnalyzeImageFulfilled(id)
  \/ \E id \in Ids, s \in Statuses : AnalyzeImageRejected(id, s)

SlicesNext == ThreatNext \/ SatelliteNext \/ UserLogout

SpecSlices == Init /\ [][SlicesNext]_vars

\* ======================================================== fetchWithCache
CacheFrame ==
  UNCHANGED <<coordVars, sliceVars, storage, auth, netCalls, thunk, memVars,
              dashVars>>

\* a call fetchWithCache(url, cacheTime): the cached data is returned, or
\* the request leaves
FetchWithCache(url, cacheTime) ==
  /\ IF Fresh(cache[url], now, cacheTime)
       THEN /\ ev' = Ev("fetchWithCache/hit", url, cacheTime,
                        cache[url][1].data, {})
            /\ UNCHANGED inflight
       ELSE /\ inflight[url] < MaxFetch
            /\ inflight' = [inflight EXCEPT ![url] = @ + 1]
            /\ ev' = Ev("fetchWithCache/request", url, cacheTime, Null, {})
  /\ UNCHANGED <<cache, now>>
  /\ CacheFrame

\* response.ok: the body is stored with the time of the answer and returned
FetchOk(url, data) ==
  /\ inflight[url] > 0
  /\ inflight' = [inflight EXCEPT ![url] = @ - 1]
  /\ cache' = [cache EXCEPT ![url] = Entry(data, now)]
  /\ ev' = Ev("fetchWithCache/stored", url, 200, data, {})
  /\ UNCHANGED now
  /\ CacheFrame

\* !response.ok, or fetch rejects: the call throws
FetchFailed(url, status) ==
  /\ inflight[url] > 0
  /\ inflight' = [inflight EXCEPT ![url] = @ - 1]
  /\ ev' = Ev("fetchWithCache/failed", url, status, Null, {})
  /\ UNCHANGED <<cache, now>>
  /\ CacheFrame

\* time passes
Tick ==
  /\ now < MaxTime
  /\ now' = now + 1
  /\ ev' = OtherEv
  /\ UNCHANGED <<cache, inflight>>
  /\ CacheFrame

CacheNext ==
  \/ \E url \in Urls, cacheTime \in {0, 1, MaxTime} :
        FetchWithCache(url, cacheTime)
  \/ \E url \in Urls, data \in Bodies : FetchOk(url, data)
  \/ \E url \in Urls, s \in Statuses : FetchFailed(url, s)
  \/ Tick
  \/ UserLogout

SpecCache == Init /\ [][CacheNext]_vars

\* ========================================================== CacheManager
MemFrame ==
  UNCHANGED <<coordVars, sliceVars, storage, auth, netCalls, thunk, cache,
              inflight, dashVars>>

\* set(key, data, ttl): the entry is written and a timeout is armed
CacheSet(key, data, ttl) ==
  /\ Cardinality(timers) < MaxTimers
  /\ mem' = [mem EXCEPT ![key] = Entry(data, now)]
  /\ timers' = timers \cup {[key |-> key, due |-> now + EffectiveTtl(ttl)]}
  /\ lastSet' = [lastSet EXCEPT ![key] = <<[at |-> now, ttl |-> EffectiveTtl(ttl)]>>]
  /\ ev' = Ev("cacheManager/set", key, ttl, data, {})
  /\ UNCHANGED now
  /\ MemFrame

\* the callback of a timeout runs, at its time or later
CacheTimeout(t) ==
  /\ t \in timers
  /\ now >= t.due
  /\ timers' = timers \ {t}
  /\ mem' = [mem EXCEPT ![t.key] = <<>>]
  /\ ev' = Ev("cacheManager/timeout", t.key, 0, Null, {})
  /\ UNCHANGED <<now, lastSet>>
  /\ MemFrame

\* get(key, ttl): null for no entry, null and a delete for an entry older
\* than ttl, else the data
CacheGet(key, ttl) ==
  /\ IF mem[key] = <<>>
       THEN /\ ev' = Ev("cacheManager/get", key, ttl, Null, {})
            /\ UNCHANGED <<mem, lastSet>>
       ELSE IF Expired(mem[key], now, ttl)
              THEN /\ mem' = [mem EXCEPT ![key] = <<>>]
                   /\ lastSet' = [lastSet EXCEPT ![key] = <<>>]
                   /\ ev' = Ev("cacheManager/get", key, ttl, Null, {})
              ELSE /\ ev' = Ev("cacheManager/get", key, ttl, mem[key][1].data, {})
                   /\ UNCHANGED <<mem, lastSet>>
  /\ UNCHANGED <<now, timers>>
  /\ MemFrame

\* invalidate(pattern) for a pattern the keys K contain, invalidate() for
\* K = Keys
CacheInvalidate(K) ==
  /\ mem' = Invalidate(mem, K)
  /\ lastSet' = Invalidate(lastSet, K)
  /\ ev' = Ev("cacheManager/invalidate", 0, 0, Null, {})
  /\ UNCHANGED <<now, timers>>
  /\ MemFrame

MemNext ==
  \/ \E key \in Keys, data \in Bodies, ttl \in Ttls : CacheSet(key, data, ttl)
  \/ \E t \in timers : CacheTimeout(t)
  \/ \E key \in Keys, ttl \in Ttls : CacheGet(key, ttl)
  \/ \E K \in (SUBSET Keys) \ {{}} : CacheInvalidate(K)
  \/ Tick

SpecMem == Init /\ [][MemNext]_vars

\* ====================================================== MilitaryDashboard
\* ProtectedRoute.tsx: the image list of the dashboard, fetched through
\* fetchWithCache("/satellite/images/", 60000), and handleFileUpload.  The
\* clock counts periods of 30 s.
ListUrl == 1
ListCacheTime == 2

DashFrame ==
  UNCHANGED <<coordVars, sliceVars, storage, auth, netCalls, thunk, memVars>>

\* fetchSatelliteImages, lines 1762-1787, called by the dashboard outside
\* handleFileUpload: the cached list is shown, or the request leaves
ListFetch ==
  /\ IF Fresh(cache[ListUrl], now, ListCacheTime)
       THEN /\ displayed' = cache[ListUrl][1].data
            /\ UNCHANGED inflight
       ELSE /\ inflight[ListUrl] < MaxFetch
            /\ inflight' = [inflight EXCEPT ![ListUrl] = @ + 1]
            /\ UNCHANGED displayed
  /\ ev' = Ev("dashboard/fetchSatelliteImages", 0, 0, Null, {})
  /\ UNCHANGED <<cache, now, server, upload>>
  /\ DashFrame

\* the list request is answered ok: stored by fetchWithCache, then shown
ListFetchOk ==
  /\ inflight[ListUrl] > 0
  /\ inflight' = [inflight EXCEPT ![ListUrl] = @ - 1]
  /\ cache' = [cache EXCEPT ![ListUrl] = Entry(server, now)]
  /\ displayed' = server
  /\ ev' = Ev("dashboard/listShown", 0, 200, Null, {})
  /\ UNCHANGED <<now, server, upload>>
  /\ DashFrame

\* the list request fails: fetchWithCache throws, the catch logs
ListFetchFailed(status) ==
  /\ inflight[ListUrl] > 0
  /\ inflight' = [inflight EXCEPT ![ListUrl] = @ - 1]
  /\ ev' = Ev("dashboard/listFailed", 0, status, Null, {})
  /\ UNCHANGED <<cache, now, server, displayed, upload>>
  /\ DashFrame

\* handleFileUpload, lines 1929-1947: the POST of the file leaves
UploadStart ==
  /\ upload.pc = "idle"
  /\ server < MaxId
  /\ upload' = [pc |-> "posting", id |-> 0]
  /\ ev' = Ev("dashboard/uploadStart", 0, 0, Null, {})
  /\ UNCHANGED <<cache, now, inflight, server, displayed>>
  /\ DashFrame

\* lines 1949-1951: response.ok, the server has created the image; the
\* status polling starts
UploadPosted ==
  /\ upload.pc = "posting"
  /\ server' = server + 1
  /\ upload' = [pc |-> "polling", id |-> server + 1]
  /\ ev' = Ev("dashboard/uploaded", server + 1, 200, Null, {})
  /\ UNCHANGED <<cache, now, inflight, displayed>>
  /\ DashFrame

\* lines 2021-2030: the POST failed
UploadFailed(status) ==
  /\ upload.pc = "posting"
  /\ upload' = [pc |-> "idle", id |-> 0]
  /\ ev' = Ev("dashboard/uploadFailed", 0, status, Null, {})
  /\ UNCHANGED <<cache, now, inflight, server, displayed>>
  /\ DashFrame

\* lines 1958-2011: the polling loop ends; await fetchSatelliteImages():
\* the cached list is shown and the handler goes on, or the request leaves
UploadRefresh ==
  /\ upload.pc = "polling"
  /\ IF Fresh(cache[ListUrl], now, ListCacheTime)
       THEN /\ displayed' = cache[ListUrl][1].data
            /\ upload' = [pc |-> "idle", id |-> 0]
            /\ ev' = Ev("dashboard/uploadRefreshed", upload.id, 0, Null, {})
       ELSE /\ upload' = [upload EXCEPT !.pc = "listing"]
            /\ ev' = Ev("dashboard/uploadListing", upload.id, 0, Null, {})
            /\ UNCHANGED displayed
  /\ UNCHANGED <<cache, now, inflight, server>>
  /\ DashFrame

\* the list request of the handler is answered ok
UploadListOk ==
  /\ upload.pc = "listing"
  /\ cache' = [cache EXCEPT ![ListUrl] = Entry(server, now)]
  /\ displayed' = server
  /\ upload' = [pc |-> "idle", id |-> 0]
  /\ ev' = Ev("dashboard/uploadRefreshed", upload.id, 200, Null, {})
  /\ UNCHANGED <<now, inflight, server>>
  /\ DashFrame

\* the list request of the handler fails: the catch of
\* fetchSatelliteImages logs, the handler goes on
UploadListFailed(status) ==
  /\ upload.pc = "listing"
  /\ upload' = [pc |-> "idle", id |-> 0]
  /\ ev' = Ev("dashboard/uploadListFailed", upload.id, status, Null, {})
  /\ UNCHANGED <<cache, now, inflight, server, displayed>>
  /\ DashFrame

DashNext ==
  \/ ListFetch
  \/ ListFetchOk
  \/ \E s \in Statuses : ListFetchFailed(s)
  \/ UploadStart
  \/ UploadPosted
  \/ \E s \in Statuses : UploadFailed(s)
  \/ UploadRefresh
  \/ UploadListOk
  \/ \E s \in Statuses : UploadListFailed(s)
  \/ Tick

SpecDash == Init /\ [][DashNext]_vars

\* the POST of the refresh thunk is answered, or the dispatch fails
RefreshSettles ==
  \E r \in Reqs :
     \/ \E a \in {Minted(netCalls), Null} : RefreshFulfilled(r, a)
     \/ RefreshRejected(r)
     \/ RefreshThrows(r)

\* every refresh call eventually settles
FairSpec == Spec /\ WF_vars(RefreshSettles)

\* ============================================================== properties
RefreshInFlight == Cardinality({r \in Reqs : req[r].st = "awaitRefresh"})
Recovering == {r \in Reqs : req[r].st \in {"queued", "awaitRefresh"}}
\* requests whose pushed continuation has been neither resolved nor rejected
Unsettled == {r \in Reqs : req[r].st \in {"queued", "orphaned"}}
SettleOps == {"RefreshFulfilled", "RefreshRejected", "RefreshThrows", "RefreshNoToken"}
FailOps == {"RefreshRejected", "RefreshThrows", "RefreshNoToken"}
HandlerOps == {"PassThrough", "Enqueue", "StartRefresh", "RefreshNoToken"}
SessionCleared ==
  /\ auth.user = Null /\ auth.accessToken = Null /\ auth.refreshToken = Null
  /\ ~ auth.isAuthenticated
  /\ storage.accessToken = Null /\ storage.refreshToken = Null

\* C1: in every reachable state at most one refreshAccessToken attempt is in
\* flight, whatever the number of requests and the order of their 401
\* responses, 401 responses to already retried requests included; the flag
\* isRefreshing is set exactly while that attempt is in flight.
C1_AtMostOneRefreshInFlight ==
  /\ RefreshInFlight <= 1
  /\ isRefreshing <=> (RefreshInFlight = 1)

\* a retried request has just been answered 401 while a refresh started by
\* another request is in flight
C1_Witness ==
  /\ ev.op = "PassThrough" /\ ev.status = 401
  /\ req[ev.r].resends > 0
  /\ RefreshInFlight = 1

\* C2: while no refresh has completed, the requests that received a
\* recoverable 401 caused exactly one refresh call: the first started it and
\* every further one sits in the pending queue.
C2_ExactlyOneRefreshCall ==
  (refreshCalls = RefreshInFlight /\ Recovering # {}) =>
     /\ refreshCalls = 1
     /\ Len(failedQueue) = Cardinality(Recovering) - 1
     /\ \A r \in Recovering : (req[r].st = "queued") <=> (r \in QueueSet)

\* every request has received its 401 before the only refresh completed
C2_Witness ==
  /\ Recovering = Reqs
  /\ refreshCalls = 1 /\ netCalls = 1
  /\ Len(failedQueue) = NumReq - 1

\* C3: when a refresh succeeds with a new access token T2, the request that
\* started it and every request queued behind it are re-sent with
\* Authorization: Bearer T2.
C3_RetriedWithNewToken ==
  (ev.op = "RefreshFulfilled" /\ Truthy(ev.payload)) =>
     \A q \in ev.drained \cup {ev.r} :
        /\ req[q].st = "inflight"
        /\ req[q].hdr = ev.payload
        /\ req[q].resends >= 1

\* A and B both got 401 with the initial token, one refresh was made and it
\* returned a different token
C3_Witness ==
  /\ ev.op = "RefreshFulfilled" /\ ev.payload = InitToken + 1
  /\ ev.drained # {}
  /\ refreshCalls = 1
  /\ \A q \in ev.drained \cup {ev.r} :
        req[q].hdr = InitToken + 1 /\ req[q].resends = 1

\* C4: once the refresh settles, all N requests that waited on it settle
\* alike: re-sent with the same rotated token when it succeeded, rejected with
\* the same error when it failed; none stays pending.
C4_AllSettleAlike ==
  (ev.op \in SettleOps) =>
     LET S == ev.drained \cup {ev.r}
     IN IF ev.op = "RefreshFulfilled"
          THEN \A q \in S : req[q].st = "inflight" /\ req[q].hdr = req[ev.r].hdr
          ELSE \A q \in S : req[q].st = "rejected" /\ req[q].err = req[ev.r].err

\* C5: when the refresh fails, the request that triggered it rejects with the
\* refresh error, not with its original 401 error.
C5_InitiatorGetsRefreshError ==
  (ev.op \in FailOps) =>
     /\ req[ev.r].st = "rejected"
     /\ req[ev.r].err.kind # "AxiosError"

\* C6: every continuation pushed onto failedQueue is settled exactly once when
\* the refresh settles, whatever its outcome: a continuation not yet settled
\* is still in the queue (a promise settles at most once, so none is settled
\* twice); the queue is empty after the drain and whenever no refresh is in
\* flight.
C6_QueueDrainedExactlyOnce ==
  /\ \A r \in Reqs : (r \in Unsettled) <=> (r \in QueueSet)
  /\ (RefreshInFlight = 0) => (failedQueue = <<>>)

\* C7: a logical request is re-sent by the coordinator at most once.
C7_RetriedAtMostOnce ==
  \A r \in Reqs : req[r].resends <= 1

\* C8: a request marked _retry that receives a 401 is not re-sent, starts no
\* refresh and does not enter the queue; its promise rejects with that error.
C8_RetriedRequestRejects ==
  [][\A r \in Reqs :
       (req[r].st = "inflight" /\ req[r].retry
          /\ ev'.op \in HandlerOps /\ ev'.r = r /\ ev'.status = 401)
       => /\ req'[r].st = "rejected"
          /\ req'[r].err = AxiosErr(401)
          /\ req'[r].resends = req[r].resends
          /\ refreshCalls' = refreshCalls
          /\ failedQueue' = failedQueue
          /\ isRefreshing' = isRefreshing]_vars

\* a request re-sent after a refresh was answered 401 again and rejected
C8_Witness ==
  /\ ev.op = "PassThrough" /\ ev.status = 401
  /\ req[ev.r].retry /\ req[ev.r].resends = 1
  /\ req[ev.r].st = "rejected" /\ req[ev.r].err = AxiosErr(401)

\* C9: an error response whose status is not 401 starts no refresh, enqueues
\* nothing and is not re-sent: the promise rejects with the original error and
\* the coordinator state and the session are unchanged.
C9_Non401PassesThrough ==
  [][\A r \in Reqs :
       (req[r].st = "inflight" /\ ev'.op \in HandlerOps /\ ev'.r = r
          /\ ev'.status # 401)
       => /\ req'[r].st = "rejected"
          /\ req'[r].err = AxiosErr(ev'.status)
          /\ req'[r].resends = req[r].resends
          /\ req'[r].retry = req[r].retry
          /\ \A q \in Reqs \ {r} : req'[q] = req[q]
          /\ UNCHANGED <<isRefreshing, failedQueue, refreshCalls, netCalls,
                         auth, storage, location, redirects>>]_vars

\* a 403, 404 or 500 was passed on to the caller while a refresh started by
\* another request was in flight
C9_Witness ==
  /\ ev.op = "PassThrough" /\ ev.status \in {403, 404, 500}
  /\ req[ev.r].st = "rejected" /\ req[ev.r].err = AxiosErr(ev.status)
  /\ ~ req[ev.r].retry
  /\ isRefreshing

\* C10: a refresh attempted without a refresh token in storage fails at once
\* with no call to the refresh endpoint, and the failure path runs: the queue
\* is rejected and emptied, the session is cleared in the store and in
\* storage, and the page is redirected to /login.
C10_NoRefreshTokenFailsFast ==
  [][(refreshCalls' = refreshCalls + 1 /\ ~ Truthy(storage.refreshToken))
       => /\ netCalls' = netCalls
          /\ failedQueue' = <<>>
          /\ \A q \in QueueSet : req'[q].st = "rejected"
          /\ req'[ev'.r].st = "rejected"
          /\ SessionCleared'
          /\ location' = "/login"
          /\ redirects' = redirects + 1
          /\ ~ isRefreshing']_vars

\* an access token was in storage without a refresh token when the 401 came
C10_Witness ==
  /\ ev.op = "RefreshNoToken" /\ req[ev.r].hdr # Null
  /\ netCalls = 1 /\ refreshCalls = 2
  /\ SessionCleared /\ location = "/login"

\* C11: when the refresh call fails while A started it and B is queued behind
\* it, the session is cleared in the store and in storage, the promises of A
\* and B reject, and that failure assigns /login to the location exactly once.
C11_RefreshFailureLogsOut ==
  [][\A r \in Reqs :
       (req[r].st = "awaitRefresh" /\ ev'.op = "RefreshRejected" /\ ev'.r = r)
       => /\ SessionCleared'
          /\ \A q \in QueueSet \cup {r} : req'[q].st = "rejected"
          /\ location' = "/login"
          /\ redirects' = redirects + 1]_vars

\* the only refresh failed with a request queued behind it: one redirect
C11_Witness ==
  /\ ev.op = "RefreshRejected" /\ ev.drained # {}
  /\ \A q \in ev.drained \cup {ev.r} : req[q].st = "rejected"
  /\ SessionCleared /\ location = "/login" /\ redirects = 1
  /\ refreshCalls = 1

C18_ReturnsToIdle ==
  /\ [][(isRefreshing /\ ev'.op \in SettleOps)
          => (~ isRefreshing' /\ failedQueue' = <<>>)]_vars
  /\ [](~ isRefreshing => failedQueue = <<>>)
  /\ (isRefreshing ~> ~ isRefreshing)

\* a refresh succeeded, its request was re-sent, and the next 401 started a
\* new refresh
C18_Witness ==
  /\ ev.op = "StartRefresh" /\ refreshCalls = 2 /\ redirects = 0
  /\ \E q \in Reqs : req[q].resends = 1
  /\ isRefreshing /\ failedQueue = <<>>

\* ---------------------------------------------------- auth slice properties
SessionFields(s) == <<s.accessToken, s.refreshToken, s.isAuthenticated>>

\* C13: the session fields of the auth store (accessToken, refreshToken,
\* isAuthenticated) are changed only by login, token refresh and logout; every
\* other action of the auth slice leaves all three as they were.
C13_SessionFieldsFrame ==
  [][ev'.op \notin {"login/fulfilled", "register/fulfilled",
                    "refreshToken/fulfilled", "refreshToken/rejected", "logout"}
       => SessionFields(auth') = SessionFields(auth)]_vars

\* C14: logout is idempotent: the state and the storage a logout leaves are
\* fixed points of logout, so a logout of a logged-out state changes nothing,
\* and the storage holds no token.
C14_LogoutIdempotent ==
  [][ev'.op = "logout"
       => /\ auth' = LogoutReducer(auth)
          /\ LogoutReducer(auth') = auth'
          /\ storage' = LogoutStorage(storage)
          /\ LogoutStorage(storage') = storage'
          /\ storage'.accessToken = Null /\ storage'.refreshToken = Null
          /\ (ev.op = "logout" => (auth' = auth /\ storage' = storage))]_vars

\* a logout of a session whose profile request is still in flight
C14_Witness ==
  /\ ev.op = "logout"
  /\ thunk.fetchCurrentUser = "net"
  /\ SessionCleared

\* C20: once the session is destroyed it stays destroyed until a login or a
\* registration: no completion of a request that was in flight at logout time
\* sets isAuthenticated, puts an access token into the store or writes one to
\* storage.
C20_LogoutIsFinal ==
  [][(/\ SessionCleared
      /\ ev'.op \notin {"login/pending", "login/tokens", "login/fulfilled",
                        "login/rejected", "register/pending", "register/created",
                        "register/tokens", "register/fulfilled",
                        "register/rejected"})
       => /\ ~ auth'.isAuthenticated
          /\ auth'.accessToken = Null
          /\ storage'.accessToken = Null]_vars

\* ------------------------------------------------ resource slice properties
RejectedOps ==
  {"threat/fetchThreats/rejected", "threat/verify/rejected",
   "threat/acknowledge/rejected", "satellite/fetchImages/rejected",
   "satellite/fetchImage/rejected", "satellite/uploadImage/rejected",
   "satellite/analyzeImage/rejected"}

\* the flags of the slice the store action op belongs to
FlagsOf(op) ==
  IF op \in {"threat/fetchThreats/pending", "threat/fetchThreats/fulfilled",
            "threat/fetchThreats/rejected", "threat/verify/pending",
            "threat/verify/fulfilled", "threat/verify/rejected",
            "threat/acknowledge/pending", "threat/acknowledge/fulfilled",
            "threat/acknowledge/rejected"}
    THEN [isLoading |-> threat.isLoading, error |-> threat.error]
    ELSE [isLoading |-> satellite.isLoading, error |-> satellite.error]

\* the ids of a list in list order
IdSeq(list) == [i \in 1..Len(list) |-> list[i].id]

\* the indices at which two lists of one length differ
Changed(old, new) == {i \in 1..Len(old) : new[i] # old[i]}

\* C12: a 401 answered to a request of a resource slice is absorbed by the
\* coordinator: the slice action is rejected on a 401 only after a token
\* refresh has been dispatched.
C12_Slice401Absorbed ==
  (ev.op \in RejectedOps /\ ev.status = 401) => refreshCalls >= 1

\* C15: every asynchronous action of the resource slices shows its three
\* states in the slice: pending sets isLoading and clears error, fulfilled
\* clears isLoading, rejected clears isLoading and sets error to the message.
C15_ThreeStatesReflected ==
  /\ ev.op \in {"threat/fetchThreats/pending", "threat/verify/pending",
                "threat/acknowledge/pending", "satellite/fetchImages/pending",
                "satellite/fetchImage/pending", "satellite/uploadImage/pending",
                "satellite/analyzeImage/pending"}
       => (FlagsOf(ev.op).isLoading /\ FlagsOf(ev.op).error = Null)
  /\ ev.op \in {"threat/fetchThreats/fulfilled", "threat/verify/fulfilled",
                "threat/acknowledge/fulfilled", "satellite/fetchImages/fulfilled",
                "satellite/fetchImage/fulfilled", "satellite/uploadImage/fulfilled",
                "satellite/analyzeImage/fulfilled"}
       => ~ FlagsOf(ev.op).isLoading
  /\ ev.op \in RejectedOps
       => (~ FlagsOf(ev.op).isLoading /\ FlagsOf(ev.op).error = ErrMsg)

\* C16 as first stated: a fulfilled verifyThreat, acknowledgeThreat,
\* analyzeImage or uploadSatelliteImage leaves the length and the order of
\* the cached list as they were, changes no entity but the one with the id of
\* the response, and leaves the list unchanged if that id is not cached.
C16_MutationInPlace ==
  [][/\ ev'.op \in {"threat/verify/fulfilled", "threat/acknowledge/fulfilled"}
        => /\ IdSeq(threat'.threats) = IdSeq(threat.threats)
           /\ \A i \in Changed(threat.threats, threat'.threats) :
                 threat.threats[i].id = ev'.r
           /\ ev'.r \notin IdsOf(threat.threats) => threat' = threat
     /\ ev'.op \in {"satellite/analyzeImage/fulfilled",
                    "satellite/uploadImage/fulfilled"}
        => /\ IdSeq(satellite'.images) = IdSeq(satellite.images)
           /\ \A i \in Changed(satellite.images, satellite'.images) :
                 satellite.images[i].id = ev'.r
           /\ ev'.r \notin IdsOf(satellite.images)
                => satellite'.images = satellite.images]_vars

\* C16, amended: a fulfilled verifyThreat, acknowledgeThreat or analyzeImage
\* changes in place only the first cached entity with the id of the response
\* (length, order and every other entity stay, and the list stays as it is
\* if the id is not cached); a fulfilled uploadSatelliteImage puts the image
\* of the response in front of the list and leaves the cached entities behind
\* it unchanged and in their order; none of the four starts a request.
C16_MutationPatchesList ==
  [][/\ ev'.op \in {"threat/verify/fulfilled", "threat/acknowledge/fulfilled"}
        => /\ IdSeq(threat'.threats) = IdSeq(threat.threats)
           /\ Changed(threat.threats, threat'.threats)
                \subseteq {FindIndex(threat.threats, ev'.r)}
           /\ ev'.r \notin IdsOf(threat.threats) => threat' = threat
           /\ calls' \subseteq calls /\ dispatched' = dispatched
     /\ ev'.op = "satellite/analyzeImage/fulfilled"
        => /\ IdSeq(satellite'.images) = IdSeq(satellite.images)
           /\ Changed(satellite.images, satellite'.images)
                \subseteq {FindIndex(satellite.images, ev'.r)}
           /\ ev'.r \notin IdsOf(satellite.images)
                => satellite'.images = satellite.images
           /\ calls' \subseteq calls /\ dispatched' = dispatched
     /\ ev'.op = "satellite/uploadImage/fulfilled"
        => /\ Len(satellite'.images) = Len(satellite.images) + 1
           /\ Head(satellite'.images).id = ev'.r
           /\ Tail(satellite'.images) = satellite.images
           /\ calls' \subseteq calls /\ dispatched' = dispatched]_vars

\* the second threat of a list of two has just been verified in place
C16_Witness ==
  /\ ev.op = "threat/verify/fulfilled" /\ ev.r = 2
  /\ Len(threat.threats) = 2
  /\ threat.threats[2] = Threat(2, TRUE, FALSE)
  /\ threat.threats[1] = Threat(1, FALSE, FALSE)

\* ------------------------------------------------- fetchWithCache properties
\* C19: a call of fetchWithCache returns the stored data without a request if
\* and only if an item for the URL exists whose age is below the cacheTime of
\* the call; otherwise it sends the request; an ok response stores the body
\* under that URL with the time of the answer; a failed response stores
\* nothing and leaves every item as it was.
C19_CacheServesFreshOnly ==
  [][/\ ev'.op \in {"fetchWithCache/hit", "fetchWithCache/request"}
        => /\ (ev'.op = "fetchWithCache/hit")
                <=> /\ cache[ev'.r] # <<>>
                    /\ now - cache[ev'.r][1].timestamp < ev'.status
           /\ cache' = cache
           /\ ev'.op = "fetchWithCache/hit"
                => /\ ev'.payload = cache[ev'.r][1].data
                   /\ inflight' = inflight
           /\ ev'.op = "fetchWithCache/request"
                => inflight' = [inflight EXCEPT ![ev'.r] = @ + 1]
     /\ ev'.op = "fetchWithCache/stored"
        => cache' = [cache EXCEPT ![ev'.r] = Entry(ev'.payload, now)]
     /\ ev'.op = "fetchWithCache/failed" => cache' = cache]_vars

\* an item one tick old has just been served to a call whose cacheTime is
\* above that age, while an older answer for the other URL stays stored
C19_Witness ==
  /\ ev.op = "fetchWithCache/hit"
  /\ now - cache[ev.r][1].timestamp = 1
  /\ ev.status = MaxTime
  /\ \E u \in Urls \ {ev.r} : cache[u] # <<>>

\* ------------------------------------------------------- ProtectedRoute
\* variant: the spinner is shown only while isLoading
Render_NoUserCheck(s) ==
  IF s.isLoading
    THEN "spinner"
    ELSE IF ~ s.isAuthenticated \/ ~ Truthy(s.accessToken)
           THEN "redirect"
           ELSE "children"

\* ProtectedRoute.tsx lines 25-42: what the route renders in auth state s
Render(s) ==
  IF s.isLoading \/ (Truthy(s.accessToken) /\ s.user = Null)
    THEN "spinner"
    ELSE IF ~ s.isAuthenticated \/ ~ Truthy(s.accessToken)
           THEN "redirect"
           ELSE "children"

\* C21: a login or a registration that ends rejected leaves no session
\* behind: the session fields of the store are as before the rejection and,
\* when the attempt fails at its profile request with no other writer of
\* tokens at work, storage holds no token.
C21_RejectedSignInLeavesNothing ==
  [][ev'.op \in {"login/rejected", "register/rejected"}
       => /\ SessionFields(auth') = SessionFields(auth)
          /\ (/\ ev'.op = "login/rejected" /\ thunk.login = "profile"
              /\ thunk.register \in {"idle", "users", "create"}
              /\ thunk.refreshToken = "idle")
             => (storage'.accessToken = Null /\ storage'.refreshToken = Null)
          /\ (/\ ev'.op = "register/rejected" /\ thunk.register = "profile"
              /\ thunk.login \in {"idle", "create"}
              /\ thunk.refreshToken = "idle")
             => (storage'.accessToken = Null /\ storage'.refreshToken = Null)]_vars

\* C22: ProtectedRoute renders its children only when isAuthenticated is true,
\* accessToken is not null, the user is loaded and isLoading is false; in
\* every other state it renders the spinner or the redirect.
C22_ChildrenOnlyWhenReady ==
  /\ Render(auth) \in {"spinner", "redirect", "children"}
  /\ Render(auth) = "children"
       <=> /\ auth.isAuthenticated
           /\ auth.accessToken # Null
           /\ auth.user # Null
           /\ ~ auth.isLoading

\* the children are rendered after a login
C22_Witness ==
  /\ Render(auth) = "children"
  /\ ev.op = "login/fulfilled"

\* C23: a rejected fetchCurrentUser takes the route out of the loading state
\* to the redirect, and does not make the effect dispatch fetchCurrentUser
\* again.
C23_RejectedFetchEndsLoading ==
  ev.op = "fetchCurrentUser/rejected"
    => /\ Render(auth) = "redirect"
       /\ ~ (Truthy(auth.accessToken) /\ auth.user = Null /\ ~ auth.isLoading)

\* C24: whatever the number of 401 responses around a failing refresh and
\* whenever they arrive, the forced logout (logout dispatch, notification,
\* assignment of /login to window.location.href) runs at most once in the
\* session whose refresh was attempted.
C24_ForcedLogoutOnce == netCalls >= 1 => redirects <= 1

\* C25: in each resource slice isLoading is true as long as one of the
\* requests that set it is in flight.
C25_LoadingWhileAnyInFlight ==
  /\ (\E c \in calls : c.type = "threat/fetchThreats") => threat.isLoading
  /\ (\E c \in calls :
        c.type \in {"satellite/fetchImages", "satellite/fetchImage",
                    "satellite/uploadImage"})
       => satellite.isLoading

\* C27: a logout by useLogout.handleLogout leaves no data of the ended
\* session on the client: the slices hold no threats and no images, and the
\* response cache of sessionStorage is empty.
C27_LogoutLeavesNoData ==
  [][UserLogout
       => /\ threat'.threats = <<>>
          /\ satellite'.images = <<>>
          /\ satellite'.currentImage = <<>>
          /\ \A u \in Urls : cache'[u] = <<>>]_vars

\* ------------------------------------------------- CacheManager properties
\* C26: an entry set with a ttl stays in the cache until the ttl has elapsed
\* since the latest set of its key, unless invalidate removes it (or a get
\* with a shorter ttl finds it expired); and get never returns an entry older
\* than its ttl.
C26_EntryLivesForTtl ==
  /\ \A k \in Keys :
       (lastSet[k] # <<>> /\ now - lastSet[k][1].at < lastSet[k][1].ttl)
         => (mem[k] # <<>> /\ mem[k][1].timestamp = lastSet[k][1].at)
  /\ (ev.op = "cacheManager/get" /\ ev.payload # Null)
       => (mem[ev.r] # <<>> /\ now - mem[ev.r][1].timestamp <= EffectiveTtl(ev.status))

\* ---------------------------------------------------- dashboard properties
\* C28: when the list refresh that follows a successful upload has put a
\* list on the dashboard, that list contains the uploaded image.
C28_RefreshShowsUpload ==
  ev.op = "dashboard/uploadRefreshed" => displayed >= ev.r

====
